---- MODULE Spec2Model ----
(***************************************************************************)
(* Broadcast (EthanC/Broadcast): one invocation loads config.json and      *)
(* history.json, processes the blog feed and then the Message of the Day   *)
(* feed of the Call of Duty franchise feed, notifies a Discord webhook of  *)
(* every item that is not in the history, and saves history.json.         *)
(*                                                                         *)
(* The model follows src/broadcast.py and src/utils.py statement by        *)
(* statement.  Strings that the code takes apart (URLs) are sequences of   *)
(* chunks; logging has no effect on the state and is left out, except      *)
(* where evaluating the log message itself can raise.                      *)
(***************************************************************************)
EXTENDS Integers, Sequences, FiniteSets, TLC

(***************************************************************************)
(* Bounds of the model (the upstream feed the program is run against).     *)
(***************************************************************************)
\* Posts the blog has published at most; the feed lists the newest first.
MaxPosts == 7
\* Notices the Message of the Day feed has shown at most; it lists the newest
\* first and drops the oldest.
MaxMotd == 2

(***************************************************************************)
(* Constants of the program.                                               *)
(***************************************************************************)
\* broadcast.py:143  elif length != 105
ExpectedLength == 105
\* broadcast.py:153  data["blog"][:5]
Window == 5

Feeds == {"blog", "motd"}

\* The key of each sub-feed in the franchise feed (broadcast.py:138, 232).
FeedKey(f) == IF f = "blog" THEN "blog" ELSE "mobileMotd"

(***************************************************************************)
(* Strings.  A URL is a sequence of chunks; "?app=true" is one chunk.      *)
(***************************************************************************)
AppTag == "?app=true"

\* A variant of ReplaceAppTag that leaves the URL as it is (the replace forgotten).
ReplaceNothing(url) == url

\* str.replace("?app=true", ""): every occurrence is removed.
ReplaceAppTag(url) == SelectSeq(url, LAMBDA c : c # AppTag)

\* The default of item.get("url", "Unknown").
Unknown == <<"Unknown">>

\* item.get("url", "Unknown")
GetUrl(item) == IF item.hasUrl THEN item.url ELSE Unknown

\* broadcast.py:156: the identifier of an item, as `current` lists it.
BlogUrl(item) == ReplaceAppTag(GetUrl(item))

\* A variant of BlogItemUrl without the replace.
BlogItemUrlRaw(item) == GetUrl(item)

\* broadcast.py:170: the identifier of an item, as the loop tests and sends it.
BlogItemUrl(item) == ReplaceAppTag(GetUrl(item))

\* item["name"]  (broadcast.py:239, 253)
MotdName(item) == item.name

\* Python's `x in list`.
Contains(list, x) == \E i \in 1..Len(list) : list[i] = x

(***************************************************************************)
(* The upstream feed.  Post k of the blog is the k-th post ever published; *)
(* some posts carry the tracking parameter, one has no "url" at all.       *)
(***************************************************************************)
\* The post that has no "url" key.
NoUrlPost == Window + 1

Post(k) ==
    IF k = NoUrlPost THEN [hasUrl |-> FALSE, url |-> <<>>]
    ELSE IF k % 2 = 1 THEN [hasUrl |-> TRUE, url |-> <<"/blog/", ToString(k), AppTag>>]
    ELSE [hasUrl |-> TRUE, url |-> <<"/blog/", ToString(k)>>]

\* The blog array of a response of n items when `head` posts are published.
BlogArray(head, n) == [i \in 1..n |-> Post(head - i + 1)]

\* The notices lo..hi are on show, the newest first (none when lo > hi).
MotdArray(lo, hi) == [i \in 1..(hi - lo + 1) |-> [name |-> ToString(hi - i + 1)]]

\* The shapes of the response body that a processor is given: the length of
\* the blog array (-1 for a body without the "blog" key) and whether the body
\* has the "mobileMotd" key.  The processor of one sub-feed does not read the
\* other's key.
Shapes(f) ==
    IF f = "blog"
    THEN {[blogLen |-> n, hasMotd |-> TRUE] :
             n \in {0, ExpectedLength - 1, ExpectedLength, ExpectedLength + 1}}
         \cup {[blogLen |-> -1, hasMotd |-> FALSE]}
    ELSE {[blogLen |-> ExpectedLength, hasMotd |-> TRUE],
          [blogLen |-> -1, hasMotd |-> FALSE]}

\* json.loads of the body of a response: a dict with the keys the body has.
Response(up, shape) ==
    [isNone     |-> FALSE,
     keys       |-> (IF shape.blogLen >= 0 THEN {"blog"} ELSE {}) \cup
                    (IF shape.hasMotd THEN {"mobileMotd"} ELSE {}),
     blog       |-> IF shape.blogLen >= 0 THEN BlogArray(up.blogHead, shape.blogLen)
                    ELSE <<>>,
     mobileMotd |-> IF shape.hasMotd THEN MotdArray(up.motdLo, up.motdHi) ELSE <<>>]

\* Python's None, as the value of `data`.
NoneData == [isNone |-> TRUE, keys |-> {}, blog |-> <<>>, mobileMotd |-> <<>>]

\* data.get(key, [])
DataGet(d, key) == IF key \in d.keys THEN d[key] ELSE <<>>

(***************************************************************************)
(* HTTP.  What one request of httpx can end in:                            *)
(*   ok       a response with a success status                             *)
(*   garbled  a response with a success status whose body is not JSON      *)
(*   status   a response with an error status: raise_for_status() raises   *)
(*            HTTPStatusError, after `status` and `data` were assigned     *)
(*   network  httpx.get/post raises a transport error (ConnectError, ...)  *)
(*   timeout  httpx.get/post raises a TimeoutException                     *)
(*   other    httpx.get/post (or json.dumps) raises something that is not  *)
(*            an httpx.HTTPError                                           *)
(* In httpx the transport errors and TimeoutException are subclasses of    *)
(* HTTPError (HTTPError > RequestError > TransportError > TimeoutException)*)
(***************************************************************************)
GetOutcomes == {"ok", "garbled", "status", "network", "timeout", "other"}
PostOutcomes == {"ok", "status", "network", "timeout", "other"}

IsHTTPError(kind) == kind \in {"status", "network", "timeout"}
IsTimeoutException(kind) == kind = "timeout"

\* Whether `status: int = res.status_code` was executed before the exception.
StatusAssigned(kind) == kind \in {"ok", "garbled", "status"}

\* The except clause that handles a failed request: the first that matches.
ExceptClause(kind) ==
    IF IsHTTPError(kind) THEN "HTTPError"
    ELSE IF IsTimeoutException(kind) THEN "TimeoutException"
    ELSE "Exception"

\* The message of the HTTPError clause reads the local `status`:
\* f"(HTTP {status}) ..." raises UnboundLocalError when it was never assigned.
ClauseRaises(kind) == ExceptClause(kind) = "HTTPError" /\ ~StatusAssigned(kind)

\* Utility.GET, one attempt: what the call does after the request ended `kind`.
GETStep(kind, retry) ==
    IF kind = "ok" THEN "return_data"
    ELSE IF kind = "garbled" THEN "raise"
    ELSE IF ClauseRaises(kind) THEN "raise"
    ELSE IF retry = FALSE THEN "retry"
    ELSE "return_none"

\* Utility.POST: what the call returns after the request ended `kind`.
POST(kind) ==
    IF kind = "ok" THEN "True"
    ELSE IF ClauseRaises(kind) THEN "raise"
    ELSE "False"

\* Utility.POST calls httpx.post at one place, once: it has no isRetry
\* parameter and does not call itself.
POSTRequests == 1

\* Broadcast.Notify returns what Utility.POST returns.
Notify(kind) == POST(kind)

(***************************************************************************)
(* history.json and config.json.                                           *)
(***************************************************************************)
AbsentFile == [state |-> "absent", keys |-> {}, blog |-> <<>>, motd |-> <<>>]

\* A file that json.loads cannot parse (an empty or half-written file).
CorruptFile == [state |-> "corrupt", keys |-> {}, blog |-> <<>>, motd |-> <<>>]

\* json.dumps(self.history): both keys, as the in-memory lists.
Dumped(h) == [state |-> "ok", keys |-> Feeds, blog |-> h.blog, motd |-> h.motd]

\* A file that holds the JSON object {} (present, no key).
EmptyObjectFile == [state |-> "ok", keys |-> {}, blog |-> <<>>, motd |-> <<>>]

EmptyHistory == [blog |-> <<>>, motd |-> <<>>]

\* A file that holds the first posts of the blog and has no "motd" key.
BlogOnlyFile ==
    [state |-> "ok", keys |-> {"blog"},
     blog |-> [i \in 1..Window |-> ReplaceAppTag(GetUrl(Post(Window - i + 1)))],
     motd |-> <<>>]

Configs == [blogEnable : BOOLEAN, motdEnable : BOOLEAN, debug : BOOLEAN]

(***************************************************************************)
(* State.                                                                  *)
(*   upstream  the franchise feed as the server holds it                   *)
(*   file      history.json                                                *)
(*   config    self.config: sources.blog.enable, sources.motd.enable, debug*)
(*   pc        where the invocation stands                                 *)
(*   history   self.history                                                *)
(*   changed   self.changed                                                *)
(*   isRetry   the isRetry parameter of the running Utility.GET            *)
(*   data      the local `data` of the running Process*: the response      *)
(*   past, items, current, idx                                             *)
(*             per processor, its locals `past`, `data` once it is rebound *)
(*             to the candidate items (broadcast.py:153, 236), `current`,  *)
(*             and the position of its `for item in data` loop             *)
(* History variables, of no influence on the program:                      *)
(*   requests  the HTTP requests that the running Utility.GET call has     *)
(*             made and seen fail (none once the call has returned)        *)
(*   sent      this run's calls of Notify, in order: feed, identifier,     *)
(*             what Notify returned ("raise" when it raised) and the HTTP  *)
(*             requests that the call made                                 *)
(*   outcome   per processor, how it ended in this run                     *)
(*   raisedIn  the function that raised, once the run has crashed, or      *)
(*             LoadHistory when it ended the run with exit(1)              *)
(*   writes    how many times this run opened history.json for writing     *)
(*   prev      per processor, when the previous run completed and the      *)
(*             processor ran on a valid response: the candidate items, the *)
(*             history list it left, the identifiers whose dispatch failed *)
(*             and the number of notifications it attempted                *)
(***************************************************************************)
VARIABLES upstream, file, config, pc, history, changed, isRetry, data,
          past, items, current, idx,
          requests, sent, outcome, raisedIn, writes, prev

vars == <<upstream, file, config, pc, history, changed, isRetry, data,
          past, items, current, idx,
          requests, sent, outcome, raisedIn, writes, prev>>

env == <<upstream>>
locals == <<past, items, current, idx>>
ghost == <<requests, sent, outcome, raisedIn, writes, prev>>

NoLocals == [f \in Feeds |-> <<>>]
NoOutcome == [f \in Feeds |-> "none"]
NoPrev == [f \in Feeds |-> [ran |-> FALSE, debug |-> FALSE, items |-> <<>>,
                            left |-> <<>>, failed |-> {}, sent |-> 0]]

\* The states in which no invocation is running.
Ended == {"done", "exit1", "crashed", "killed"}

\* The memory of a process that has not started, or is gone.
NoMemory ==
    /\ history' = EmptyHistory
    /\ changed' = FALSE
    /\ isRetry' = FALSE
    /\ data' = NoneData
    /\ past' = NoLocals
    /\ items' = NoLocals
    /\ current' = NoLocals
    /\ idx' = [f \in Feeds |-> 0]

Init ==
    /\ upstream = [blogHead |-> Window, motdLo |-> 1, motdHi |-> 0]
    /\ file \in {AbsentFile, EmptyObjectFile, BlogOnlyFile}
    /\ config \in Configs
    /\ pc = "LoadConfig"
    /\ history = EmptyHistory
    /\ changed = FALSE
    /\ isRetry = FALSE
    /\ data = NoneData
    /\ past = NoLocals
    /\ items = NoLocals
    /\ current = NoLocals
    /\ idx = [f \in Feeds |-> 0]
    /\ requests = 0
    /\ sent = <<>>
    /\ outcome = NoOutcome
    /\ raisedIn = "nowhere"
    /\ writes = 0
    /\ prev = NoPrev

(***************************************************************************)
(* The environment: the blog publishes a post, a notice is put on show or  *)
(* the oldest of several is taken off.  A run reads each sub-feed at one instant only, so a change  *)
(* while a run is under way shows nothing that a change between two runs   *)
(* does not: the feed changes between runs.                                *)
(***************************************************************************)
Publish ==
    /\ pc = "LoadConfig"
    /\ upstream.blogHead < MaxPosts
    /\ upstream' = [upstream EXCEPT !.blogHead = @ + 1]
    /\ UNCHANGED <<file, config, pc, history, changed, isRetry, data, locals, ghost>>

Rotate ==
    /\ pc = "LoadConfig"
    /\ \/ /\ upstream.motdHi < MaxMotd
          /\ upstream' = [upstream EXCEPT !.motdHi = @ + 1]
       \/ /\ upstream.motdLo < upstream.motdHi
          /\ upstream' = [upstream EXCEPT !.motdLo = @ + 1]
    /\ UNCHANGED <<file, config, pc, history, changed, isRetry, data, locals, ghost>>

(***************************************************************************)
(* Broadcast.Initialize, up to the first processor.                        *)
(***************************************************************************)
\* broadcast.py:25-29: LoadConfig (exit(1) when config.json cannot be read),
\* SetupLogging, self.changed = False.  `config` is what config.json holds.
LoadConfig ==
    /\ pc = "LoadConfig"
    /\ \/ /\ changed' = FALSE
          /\ pc' = "LoadHistory"
       \/ /\ pc' = "exit1"
          /\ UNCHANGED changed
    /\ UNCHANGED <<upstream, file, config, history, isRetry, data, locals, ghost>>

\* A variant of Loaded that takes a file without one of the keys for no
\* history at all.
LoadedWhole(f) == IF f.keys = Feeds THEN [k \in Feeds |-> f[k]] ELSE EmptyHistory

\* What LoadHistory returns for a file that json.loads accepts: a missing key
\* (history.get(key) is None) becomes the empty list.
Loaded(f) == [k \in Feeds |-> IF k \in f.keys THEN f[k] ELSE <<>>]

\* A variant of LoadHistory that does not mark the run as changed when the
\* file is absent.
LoadHistoryUnflagged ==
    /\ pc = "LoadHistory"
    /\ IF file.state = "absent"
       THEN /\ history' = EmptyHistory
            /\ pc' = "ProcessBlog"
            /\ UNCHANGED <<changed, raisedIn>>
       ELSE IF file.state = "corrupt"
       THEN /\ pc' = "exit1"
            /\ raisedIn' = "LoadHistory"
            /\ UNCHANGED <<history, changed>>
       ELSE /\ history' = Loaded(file)
            /\ pc' = "ProcessBlog"
            /\ UNCHANGED <<changed, raisedIn>>
    /\ UNCHANGED <<upstream, file, config, isRetry, data, locals,
                   requests, sent, outcome, writes, prev>>

\* broadcast.py:100-124, and the assignment of line 30.
LoadHistory ==
    /\ pc = "LoadHistory"
    /\ IF file.state = "absent"
       THEN /\ history' = EmptyHistory
            /\ changed' = TRUE
            /\ pc' = "ProcessBlog"
            /\ UNCHANGED raisedIn
       ELSE IF file.state = "corrupt"
       THEN /\ pc' = "exit1"
            /\ raisedIn' = "LoadHistory"
            /\ UNCHANGED <<history, changed>>
       ELSE /\ history' = Loaded(file)
            /\ pc' = "ProcessBlog"
            /\ UNCHANGED <<changed, raisedIn>>
    /\ UNCHANGED <<upstream, file, config, isRetry, data, locals,
                   requests, sent, outcome, writes, prev>>

(***************************************************************************)
(* Utility.GET (utils.py:14-62), one request per step.  The caller is the  *)
(* processor whose pc is "<feed>GET"; the call returns to "<feed>Check".   *)
(***************************************************************************)
Caller == IF pc = "blogGET" THEN "blog" ELSE "motd"
AfterGET == IF pc = "blogGET" THEN "blogCheck" ELSE "motdCheck"

GET ==
    /\ pc \in {"blogGET", "motdGET"}
    /\ \E kind \in GetOutcomes :
         LET step == GETStep(kind, isRetry) IN
         \/ /\ step = "return_data"
            /\ \E shape \in Shapes(Caller) : data' = Response(upstream, shape)
            /\ pc' = AfterGET
            /\ isRetry' = FALSE
            /\ requests' = 0
            /\ UNCHANGED raisedIn
         \/ /\ step = "retry"
            /\ isRetry' = TRUE
            /\ requests' = requests + 1
            /\ UNCHANGED <<pc, data, raisedIn>>
         \/ /\ step = "return_none"
            /\ data' = NoneData
            /\ pc' = AfterGET
            /\ isRetry' = FALSE
            /\ requests' = 0
            /\ UNCHANGED raisedIn
         \/ /\ step = "raise"
            /\ pc' = "crashed"
            /\ raisedIn' = "GET"
            /\ requests' = requests + 1
            /\ UNCHANGED <<data, isRetry>>
    /\ UNCHANGED <<upstream, file, config, history, changed, locals,
                   sent, outcome, writes, prev>>

(***************************************************************************)
(* Broadcast.ProcessBlog (broadcast.py:126-217).                           *)
(***************************************************************************)
\* broadcast.py:34 and 132-137: the enable flag, then `past` and the GET.
EnterBlog ==
    /\ pc = "ProcessBlog"
    /\ IF config.blogEnable = TRUE
       THEN /\ past' = [past EXCEPT !.blog = history.blog]
            /\ isRetry' = FALSE
            /\ requests' = 0
            /\ outcome' = [outcome EXCEPT !.blog = "running"]
            /\ pc' = "blogGET"
       ELSE /\ pc' = "ProcessMOTD"
            /\ UNCHANGED <<past, isRetry, requests, outcome>>
    /\ UNCHANGED <<upstream, file, config, history, changed, data, items, current, idx,
                   sent, raisedIn, writes, prev>>

\* A variant of BlogValid that asks for at least the expected count.
BlogValidAtLeast(length) == ~(length = 0) /\ ~(length < ExpectedLength)

\* broadcast.py:141-146: the response is valid when neither branch raises.
BlogValid(length) == ~(length = 0) /\ ~(length # ExpectedLength)

\* Python's list[:n].
Slice(list, n) == SubSeq(list, 1, IF Len(list) < n THEN Len(list) ELSE n)

\* broadcast.py:152-156
BlogCurrent(its) == [i \in 1..Len(its) |-> BlogUrl(its[i])]

\* broadcast.py:138-167: len(data.get(...)) raises AttributeError on None (the
\* test of line 141 comes after it), the validation, `current`, the baseline.
\* Line 153 rebinds `data` to the candidate items: they are `items`, and `data`
\* holds no response any more; a processor that returns at the validation
\* returns with the response in `data`.
BlogCheck ==
    /\ pc = "blogCheck"
    /\ IF data.isNone
       THEN /\ pc' = "crashed"
            /\ raisedIn' = "ProcessBlog"
            /\ UNCHANGED <<history, changed, data, items, current, idx, outcome>>
       ELSE /\ UNCHANGED raisedIn
            /\ IF ~BlogValid(Len(DataGet(data, "blog")))
               THEN /\ pc' = "ProcessMOTD"
                    /\ outcome' = [outcome EXCEPT !.blog = "skipped"]
                    /\ UNCHANGED <<history, changed, data, items, current, idx>>
               ELSE LET its == Slice(data.blog, Window) IN
                    /\ data' = NoneData
                    /\ items' = [items EXCEPT !.blog = its]
                    /\ current' = [current EXCEPT !.blog = BlogCurrent(its)]
                    /\ IF Len(past.blog) = 0
                       THEN /\ history' = [history EXCEPT !.blog = BlogCurrent(its)]
                            /\ changed' = TRUE
                            /\ pc' = "ProcessMOTD"
                            /\ outcome' = [outcome EXCEPT !.blog = "baseline"]
                            /\ UNCHANGED idx
                       ELSE /\ idx' = [idx EXCEPT !.blog = 1]
                            /\ pc' = "blogLoop"
                            /\ UNCHANGED <<history, changed, outcome>>
    /\ UNCHANGED <<upstream, file, config, isRetry, past, requests, sent, writes, prev>>

\* A variant of BlogCommit that commits whatever Notify returned.
BlogCommitAlways(h, ch, cur, success) ==
    [history |-> [h EXCEPT !.blog = cur], changed |-> TRUE]

\* A variant of BlogCommit that leaves self.changed as it is.
BlogCommitUnflagged(h, ch, cur, success) ==
    IF success = "True"
    THEN [history |-> [h EXCEPT !.blog = cur], changed |-> ch]
    ELSE [history |-> h, changed |-> ch]

\* broadcast.py:210-214: what a Notify result does to self.history["blog"] and
\* self.changed.
BlogCommit(h, ch, cur, success) ==
    IF success = "True"
    THEN [history |-> [h EXCEPT !.blog = cur], changed |-> TRUE]
    ELSE [history |-> h, changed |-> ch]

\* broadcast.py:169-217: one iteration of `for item in data`, or the loop's end.
BlogItem ==
    /\ pc = "blogLoop"
    /\ IF idx.blog > Len(items.blog)
       THEN /\ pc' = "ProcessMOTD"
            /\ outcome' = [outcome EXCEPT !.blog = "delta"]
            /\ UNCHANGED <<history, changed, idx, sent, raisedIn>>
       ELSE LET url == BlogItemUrl(items.blog[idx.blog]) IN
            IF Contains(past.blog, url)
            THEN /\ idx' = [idx EXCEPT !.blog = @ + 1]
                 /\ UNCHANGED <<pc, history, changed, sent, outcome, raisedIn>>
            ELSE \E kind \in PostOutcomes :
                   LET success == Notify(kind) IN
                   /\ sent' = Append(sent, [feed |-> "blog", id |-> url,
                                            result |-> success,
                                            requests |-> POSTRequests])
                   /\ UNCHANGED outcome
                   /\ IF success = "raise"
                      THEN /\ pc' = "crashed"
                           /\ raisedIn' = "POST"
                           /\ UNCHANGED <<history, changed, idx>>
                      ELSE /\ history' = BlogCommit(history, changed, current.blog,
                                                    success).history
                           /\ changed' = BlogCommit(history, changed, current.blog,
                                                    success).changed
                           /\ idx' = [idx EXCEPT !.blog = @ + 1]
                           /\ UNCHANGED <<pc, raisedIn>>
    /\ UNCHANGED <<upstream, file, config, isRetry, data, past, items, current,
                   requests, writes, prev>>

(***************************************************************************)
(* Broadcast.ProcessMOTD (broadcast.py:219-295).                           *)
(***************************************************************************)
\* broadcast.py:37 and 225-230 (the `data` of ProcessBlog is gone)
EnterMOTD ==
    /\ pc = "ProcessMOTD"
    /\ IF config.motdEnable = TRUE
       THEN /\ past' = [past EXCEPT !.motd = history.motd]
            /\ isRetry' = FALSE
            /\ requests' = 0
            /\ outcome' = [outcome EXCEPT !.motd = "running"]
            /\ pc' = "motdGET"
       ELSE /\ pc' = "Save"
            /\ UNCHANGED <<past, isRetry, requests, outcome>>
    /\ data' = NoneData
    /\ UNCHANGED <<upstream, file, config, history, changed, items, current, idx,
                   sent, raisedIn, writes, prev>>

\* broadcast.py:232
MotdValid(d) == ~(d.isNone \/ Len(DataGet(d, "mobileMotd")) = 0)

\* broadcast.py:235-239
MotdCurrent(its) == [i \in 1..Len(its) |-> MotdName(its[i])]

\* broadcast.py:232-250
MotdCheck ==
    /\ pc = "motdCheck"
    /\ IF ~MotdValid(data)
       THEN /\ pc' = "Save"
            /\ outcome' = [outcome EXCEPT !.motd = "skipped"]
            /\ UNCHANGED <<history, changed, data, items, current, idx>>
       ELSE LET its == data.mobileMotd IN
            /\ data' = NoneData
            /\ items' = [items EXCEPT !.motd = its]
            /\ current' = [current EXCEPT !.motd = MotdCurrent(its)]
            /\ IF Len(past.motd) = 0
               THEN /\ history' = [history EXCEPT !.motd = MotdCurrent(its)]
                    /\ changed' = TRUE
                    /\ pc' = "Save"
                    /\ outcome' = [outcome EXCEPT !.motd = "baseline"]
                    /\ UNCHANGED idx
               ELSE /\ idx' = [idx EXCEPT !.motd = 1]
                    /\ pc' = "motdLoop"
                    /\ UNCHANGED <<history, changed, outcome>>
    /\ UNCHANGED <<upstream, file, config, isRetry, past, requests, sent, raisedIn,
                   writes, prev>>

\* A variant of MotdBeforeNotify that assigns to the "blog" key.
MotdBeforeNotifyBlogKey(h, ch, cur) ==
    [history |-> [h EXCEPT !.blog = cur], changed |-> TRUE]

\* broadcast.py:271-273: self.history["motd"] and self.changed are assigned
\* before Notify is called.
MotdBeforeNotify(h, ch, cur) == [history |-> [h EXCEPT !.motd = cur], changed |-> TRUE]

\* broadcast.py:288-292: what a Notify result does to self.history["motd"] and
\* self.changed.
MotdCommit(h, ch, cur, success) ==
    IF success = "True"
    THEN [history |-> [h EXCEPT !.motd = cur], changed |-> TRUE]
    ELSE [history |-> h, changed |-> ch]

\* broadcast.py:252-295: one iteration of `for item in data`, or the loop's end.
MotdItem ==
    /\ pc = "motdLoop"
    /\ IF idx.motd > Len(items.motd)
       THEN /\ pc' = "Save"
            /\ outcome' = [outcome EXCEPT !.motd = "delta"]
            /\ UNCHANGED <<history, changed, idx, sent, raisedIn>>
       ELSE LET name == MotdName(items.motd[idx.motd]) IN
            IF Contains(past.motd, name)
            THEN /\ idx' = [idx EXCEPT !.motd = @ + 1]
                 /\ UNCHANGED <<pc, history, changed, sent, outcome, raisedIn>>
            ELSE \E kind \in PostOutcomes :
                   LET success == Notify(kind)
                       before  == MotdBeforeNotify(history, changed, current.motd)
                       after   == MotdCommit(before.history, before.changed,
                                             current.motd, success)
                   IN
                   /\ sent' = Append(sent, [feed |-> "motd", id |-> name,
                                            result |-> success,
                                            requests |-> POSTRequests])
                   /\ UNCHANGED outcome
                   /\ IF success = "raise"
                      THEN /\ history' = before.history
                           /\ changed' = before.changed
                           /\ pc' = "crashed"
                           /\ raisedIn' = "POST"
                           /\ UNCHANGED idx
                      ELSE /\ history' = after.history
                           /\ changed' = after.changed
                           /\ idx' = [idx EXCEPT !.motd = @ + 1]
                           /\ UNCHANGED <<pc, raisedIn>>
    /\ UNCHANGED <<upstream, file, config, isRetry, data, past, items, current,
                   requests, writes, prev>>

(***************************************************************************)
(* The end of Broadcast.Initialize, and Broadcast.SaveHistory.             *)
(***************************************************************************)
\* A variant of ShouldWrite that does not look at self.changed.
ShouldWriteUnchanged(ch, cfg) == ~(cfg.debug = TRUE)

\* A variant of ShouldWrite that does not look at the debug flag.
ShouldWriteInDebug(ch, cfg) == ch = TRUE

\* broadcast.py:40 and 330: SaveHistory is called when self.changed is True,
\* and returns at once when config.get("debug") is True.
ShouldWrite(ch, cfg) == ch = TRUE /\ ~(cfg.debug = TRUE)

\* broadcast.py:40-41 and 327-336: open("history.json", "w+") truncates the
\* file, or raises and the run exits with 1.
Save ==
    /\ pc = "Save"
    /\ IF ShouldWrite(changed, config)
       THEN \/ /\ file' = CorruptFile
               /\ writes' = writes + 1
               /\ pc' = "Write"
            \/ /\ pc' = "exit1"
               /\ UNCHANGED <<file, writes>>
       ELSE /\ pc' = "done"
            /\ UNCHANGED <<file, writes>>
    /\ data' = NoneData
    /\ UNCHANGED <<upstream, config, history, changed, isRetry, locals,
                   requests, sent, outcome, raisedIn, prev>>

\* broadcast.py:337-343: file.write(json.dumps(self.history)), or it raises and
\* the run exits with 1, the file left as open() made it.
Write ==
    /\ pc = "Write"
    /\ \/ /\ file' = Dumped(history)
          /\ pc' = "done"
       \/ /\ pc' = "exit1"
          /\ UNCHANGED file
    /\ UNCHANGED <<upstream, config, history, changed, isRetry, data, locals, ghost>>

\* The process is terminated from outside (a signal, or KeyboardInterrupt:
\* broadcast.py:346-350) while it runs.
Terminate ==
    /\ pc \notin Ended
    /\ pc' = "killed"
    /\ NoMemory
    /\ requests' = 0
    /\ sent' = <<>>
    /\ outcome' = NoOutcome
    /\ UNCHANGED <<upstream, file, config, raisedIn, writes, prev>>

\* The identifiers for which Notify returned False to processor f in this run.
Failed(f) == {sent[i].id : i \in {j \in 1..Len(sent) :
                                     sent[j].feed = f /\ sent[j].result = "False"}}

\* The next invocation (the program is run on a timer): a new process, with
\* nothing in memory.
NextRun ==
    /\ pc \in Ended
    /\ pc' = "LoadConfig"
    /\ NoMemory
    /\ requests' = 0
    /\ sent' = <<>>
    /\ outcome' = NoOutcome
    /\ raisedIn' = "nowhere"
    /\ writes' = 0
    /\ prev' = [f \in Feeds |->
                 IF pc = "done" /\ outcome[f] \in {"baseline", "delta"}
                 THEN [ran |-> TRUE, debug |-> config.debug, items |-> items[f],
                       left |-> history[f], failed |-> Failed(f),
                       sent |-> Cardinality({i \in 1..Len(sent) : sent[i].feed = f})]
                 ELSE NoPrev[f]]
    /\ UNCHANGED <<upstream, file, config>>

Next ==
    \/ Publish
    \/ Rotate
    \/ LoadConfig
    \/ LoadHistory
    \/ GET
    \/ EnterBlog
    \/ BlogCheck
    \/ BlogItem
    \/ EnterMOTD
    \/ MotdCheck
    \/ MotdItem
    \/ Save
    \/ Write
    \/ Terminate
    \/ NextRun

Spec == Init /\ [][Next]_vars

(***************************************************************************)
(* What the properties below speak of.                                     *)
(***************************************************************************)
\* This run's calls of Notify for sub-feed f, in order.
SentFor(f) == SelectSeq(sent, LAMBDA e : e.feed = f)

\* The identifiers this run attempted a notification for, in order.
SentIds(f) == [i \in 1..Len(SentFor(f)) |-> SentFor(f)[i].id]

\* Processor f ran on a response that passed its validation.
Validated(f) == items[f] # <<>>

\* The candidate identifiers that are not in `past`, in feed order.
NewIds(f) == SelectSeq(current[f], LAMBDA id : ~Contains(past[f], id))

\* The pc at which processor f examines the response, and loops.
CheckPc(f) == IF f = "blog" THEN "blogCheck" ELSE "motdCheck"
LoopPc(f) == IF f = "blog" THEN "blogLoop" ELSE "motdLoop"

\* A response that passes the validation of processor f, as the spec words it.
PassesValidation(f, d) ==
    /\ ~d.isNone
    /\ IF f = "blog"
       THEN "blog" \in d.keys /\ Len(d.blog) = 105
       ELSE "mobileMotd" \in d.keys /\ Len(d.mobileMotd) > 0

\* The identifiers of a valid response for sub-feed f, as the spec words them:
\* the first 5 URLs without "?app=true", or all the names.
Identifiers(f, d) ==
    IF f = "blog"
    THEN [i \in 1..5 |->
            IF d.blog[i].hasUrl
            THEN SelectSeq(d.blog[i].url, LAMBDA c : c # "?app=true")
            ELSE <<"Unknown">>]
    ELSE [i \in 1..Len(d.mobileMotd) |-> d.mobileMotd[i].name]

(***************************************************************************)
(* C1.  Dispatch-failure non-advancement: when a processor started from a  *)
(* non-empty history and Notify returned failure for a new item, the       *)
(* identifier of that item is not in the history list the processor leaves *)
(* in memory, nor in history.json once the run has saved it.               *)
(* The code does not keep to it: see C1_FailedItemAbsent's violation.      *)
(***************************************************************************)
C1_FailedItemAbsent ==
    \A f \in Feeds :
        (outcome[f] = "delta" /\ Len(past[f]) > 0) =>
            \A id \in Failed(f) :
                /\ ~Contains(history[f], id)
                /\ (pc = "done" /\ writes = 1) => ~Contains(file[f], id)

\* The same for the blog alone, where it takes a second item that is delivered.
C1_BlogFailedItemAbsent ==
    (outcome.blog = "delta" /\ Len(past.blog) > 0) =>
        \A id \in Failed("blog") : ~Contains(history.blog, id)

C3_Baseline ==
    [][\A f \in Feeds :
         (/\ pc = CheckPc(f) /\ pc' # "killed"
          /\ PassesValidation(f, data)
          /\ past[f] = <<>>) =>
             /\ sent' = sent
             /\ history'[f] = Identifiers(f, data)
             /\ changed' = TRUE
             /\ pc' = (IF f = "blog" THEN "ProcessMOTD" ELSE "Save")
             /\ outcome'[f] = "baseline"]_vars

\* Both processors have captured a baseline in one run, with nothing sent.
C3_Witness ==
    /\ outcome.blog = "baseline" /\ outcome.motd = "baseline"
    /\ Len(history.blog) = 5 /\ Len(history.motd) > 0
    /\ past = NoLocals
    /\ sent = <<>>
    /\ changed = TRUE

(***************************************************************************)
(* C4.  Idempotence, as claimed: when a processor runs on the candidate    *)
(* items the previous run's processor ran on, starting from the history    *)
(* list that run left, it attempts no notification and leaves the list as  *)
(* it found it, whatever the dispatch outcomes of the previous run were.   *)
(* C4_Idempotent fails after a blog run whose dispatches all failed.       *)
(***************************************************************************)
SameSnapshotAgain(f) ==
    /\ outcome[f] \in {"baseline", "delta"}
    /\ prev[f].ran
    /\ items[f] = prev[f].items
    /\ past[f] = prev[f].left

C5_DeltaAttempted ==
    \A f \in Feeds :
        (pc \in {"done", "exit1", "crashed"} /\ Validated(f) /\ Len(past[f]) > 0) =>
            SentIds(f) = NewIds(f)

\* The same, of the runs in which no POST raised: this the code keeps to.
C5_DeltaAttemptedUnlessPostRaises ==
    \A f \in Feeds :
        (/\ pc \in {"done", "exit1", "crashed"} /\ raisedIn # "POST"
         /\ Validated(f) /\ Len(past[f]) > 0) =>
            SentIds(f) = NewIds(f)

C7_FetchFailureSkips ==
    [][\A f \in Feeds :
         (pc = CheckPc(f) /\ data.isNone /\ pc' # "killed") =>
             /\ sent' = sent
             /\ history' = history
             /\ changed' = changed
             /\ pc' = (IF f = "blog" THEN "ProcessMOTD" ELSE "Save")]_vars

\* The same of ProcessMOTD alone: this the code keeps to.
C7_MotdFetchFailureSkips ==
    [][(pc = "motdCheck" /\ data.isNone /\ pc' # "killed") =>
           /\ sent' = sent
           /\ history' = history
           /\ changed' = changed
           /\ pc' = "Save"]_vars

(***************************************************************************)
(* C8.  Fixed-count gate: when ProcessBlog examines a response, it goes on *)
(* to the baseline or the delta exactly when the blog array has 105 items; *)
(* for any other length it returns with nothing sent, and history and the  *)
(* changed flag as they were.                                              *)
(***************************************************************************)
C8_FixedCountGate ==
    [][(pc = "blogCheck" /\ ~data.isNone /\ pc' # "killed") =>
           LET length == IF "blog" \in data.keys THEN Len(data.blog) ELSE 0 IN
           IF length = 105
           THEN /\ items'.blog = SubSeq(data.blog, 1, 5)
                /\ \/ pc' = "blogLoop"
                   \/ outcome'.blog = "baseline"
           ELSE /\ sent' = sent
                /\ history' = history
                /\ changed' = changed
                /\ items' = items
                /\ pc' = "ProcessMOTD"
                /\ outcome'.blog = "skipped"]_vars

\* ProcessBlog has rejected a response of 106 items while it had a history.
C8_Witness ==
    /\ pc = "ProcessMOTD"
    /\ outcome.blog = "skipped"
    /\ ~data.isNone /\ Len(data.blog) = 106
    /\ past.blog # <<>> /\ history.blog = past.blog
    /\ sent = <<>>

(***************************************************************************)
(* C9.  Notifier failure is a value, not an exception: every call of       *)
(* Notify returns true or false, and no run ends by an exception of POST.  *)
(* The code does not keep to it: see C9_NotifyNeverRaises's violation.     *)
(***************************************************************************)
C9_NotifyNeverRaises ==
    /\ \A i \in 1..Len(sent) : sent[i].result \in {"True", "False"}
    /\ raisedIn # "POST"

(***************************************************************************)
(* C10.  Persistence at most once per run and only at the end: a step      *)
(* changes history.json only when every enabled processor has returned,    *)
(* the changed flag is true and debug is not set; the file is opened for   *)
(* writing at most once in a run, and what is then written is the history  *)
(* in memory.                                                              *)
(***************************************************************************)
ProcessorsReturned ==
    /\ config.blogEnable = TRUE => outcome.blog \in {"skipped", "baseline", "delta"}
    /\ config.motdEnable = TRUE => outcome.motd \in {"skipped", "baseline", "delta"}

C10_SingleWriteAtEnd ==
    [][/\ writes' <= 1
       /\ file' # file =>
            /\ ProcessorsReturned
            /\ changed = TRUE
            /\ config.debug # TRUE
            /\ \/ pc = "Save" /\ writes = 0 /\ writes' = 1
               \/ pc = "Write" /\ writes = 1 /\ file' = Dumped(history)]_vars

\* A run that notified for both sub-feeds has saved its history, once.
C10_Witness ==
    /\ pc = "done"
    /\ writes = 1
    /\ file = Dumped(history)
    /\ outcome.blog = "delta" /\ outcome.motd = "delta"
    /\ Len(sent) > 1

(***************************************************************************)
(* C11.  Dry-run: in a run whose debug flag is set no step changes         *)
(* history.json or opens it for writing, whatever the changed flag is; the *)
(* file is after the run what it was before it.                            *)
(***************************************************************************)
C11_DryRunWritesNothing ==
    [][config.debug = TRUE => (file' = file /\ writes' = 0)]_vars

\* A debug run has ended with the changed flag set, after it delivered a blog
\* notification and captured the baseline of the notices, and the file is as
\* it was.
C11_Witness ==
    /\ pc = "done"
    /\ config.debug = TRUE
    /\ changed = TRUE
    /\ \E i \in 1..Len(sent) : sent[i].feed = "blog" /\ sent[i].result = "True"
    /\ outcome.motd = "baseline"
    /\ history # Loaded(file)
    /\ file = BlogOnlyFile
    /\ writes = 0

(***************************************************************************)
(* C12.  GET retry is bounded to one retry: the first request of a call of *)
(* Utility.GET either succeeds and the call returns the data, or fails and *)
(* the call makes a second request; the second request ends the call, with *)
(* the data or with none.  No request ends the run.                        *)
(* The code does not keep to it: a first request that fails by a network   *)
(* error or a timeout raises out of GET, and so does a body that is not    *)
(* JSON.                                                                   *)
(***************************************************************************)
C12_GetRetriesOnce ==
    [][(pc \in {"blogGET", "motdGET"} /\ pc' # "killed") =>
          /\ requests <= 1
          /\ IF isRetry = FALSE
             THEN \/ pc' = AfterGET /\ ~data'.isNone
                  \/ pc' = pc /\ isRetry' = TRUE /\ requests' = 1
             ELSE pc' = AfterGET]_vars

\* What the code keeps to: a call makes two requests at most, and the second
\* ends it.
C12_AtMostTwoRequests ==
    [][(pc \in {"blogGET", "motdGET"} /\ pc' # "killed") =>
          /\ requests <= 1
          /\ requests = 1 <=> isRetry = TRUE
          /\ isRetry = TRUE => pc' # pc]_vars

(***************************************************************************)
(* C13.  POST retry: Notify reports failure for an item only after two     *)
(* failed POST requests (a failed POST is retried once).                   *)
(* The code does not keep to it: Utility.POST makes one request and        *)
(* returns False when it fails.                                            *)
(***************************************************************************)
C13_PostRetriedOnce ==
    \A i \in 1..Len(sent) : sent[i].result = "False" => sent[i].requests = 2

(***************************************************************************)
(* C14.  History Load with absent file: LoadHistory returns the two empty  *)
(* lists and sets the changed flag; the run then reaches SaveHistory with  *)
(* the file still absent, and unless debug is set it opens the file and    *)
(* writes the history in memory to it: no run that is not a debug run      *)
(* completes with the file absent.                                         *)
(***************************************************************************)
C14_AbsentFileIsCreated ==
    [][/\ (pc = "LoadHistory" /\ file.state = "absent" /\ pc' # "killed") =>
             /\ history' = [blog |-> <<>>, motd |-> <<>>]
             /\ changed' = TRUE
             /\ pc' = "ProcessBlog"
       /\ (pc = "Save" /\ file.state = "absent" /\ pc' # "killed") =>
             /\ changed = TRUE
             /\ IF config.debug = TRUE
                THEN pc' = "done" /\ file' = file
                ELSE \/ pc' = "Write" /\ writes' = 1 /\ file'.state # "absent"
                     \/ pc' = "exit1"
       /\ (pc = "Write" /\ pc' = "done") =>
             file' = [state |-> "ok", keys |-> {"blog", "motd"},
                      blog |-> history.blog, motd |-> history.motd]
       /\ (pc' = "done" /\ config.debug # TRUE) => file'.state = "ok"]_vars

\* A run with both sub-feeds disabled has written the two empty lists.
C14_Witness ==
    /\ pc = "done"
    /\ config.debug # TRUE
    /\ config.blogEnable # TRUE /\ config.motdEnable # TRUE
    /\ writes = 1
    /\ changed = TRUE
    /\ file = [state |-> "ok", keys |-> {"blog", "motd"}, blog |-> <<>>, motd |-> <<>>]

(***************************************************************************)
(* C15.  Persisted-state corruption is fatal: when history.json is there   *)
(* but cannot be parsed, LoadHistory ends the run with exit(1): nothing    *)
(* was fetched or sent, and the file is neither written nor replaced.  A   *)
(* file that parses is loaded key by key, a missing key as the empty list, *)
(* and the run goes on.                                                    *)
(***************************************************************************)
C15_CorruptionIsFatal ==
    [][(pc = "LoadHistory" /\ pc' # "killed") =>
          /\ file' = file
          /\ sent' = <<>> /\ writes' = 0 /\ requests' = 0
          /\ outcome' = [blog |-> "none", motd |-> "none"]
          /\ file.state = "corrupt" => pc' = "exit1"
          /\ file.state = "ok" =>
                /\ pc' = "ProcessBlog"
                /\ changed' = FALSE
                /\ history' = [k \in {"blog", "motd"} |->
                                 IF k \in file.keys THEN file[k] ELSE <<>>]]_vars

\* A run has ended in LoadHistory on a file that an interrupted write left.
C15_Witness ==
    /\ pc = "exit1"
    /\ raisedIn = "LoadHistory"
    /\ file.state = "corrupt"
    /\ sent = <<>> /\ writes = 0
    /\ outcome = [blog |-> "none", motd |-> "none"]

\* A run goes on from a file that has the blog list and no "motd" key.
C15_PartialFileLoaded ==
    /\ pc = "ProcessBlog"
    /\ "motd" \notin file.keys /\ Len(file.blog) > 0
    /\ history = [blog |-> file.blog, motd |-> <<>>]

(***************************************************************************)
(* C16.  MOTD delta commits only after delivery: a step of the loop of     *)
(* ProcessMOTD that calls Notify sets history.motd to the current list and *)
(* the changed flag when Notify returned True, and leaves history and the  *)
(* flag as they were when it returned False.                               *)
(* The code does not keep to it: it assigns both before it calls Notify.   *)
(***************************************************************************)
C16_MotdCommitsAfterDelivery ==
    [][(pc = "motdLoop" /\ Len(sent') = Len(sent) + 1) =>
          LET result == sent'[Len(sent')].result IN
          /\ result = "True" => (history'.motd = current.motd /\ changed' = TRUE)
          /\ result = "False" => (history' = history /\ changed' = changed)]_vars

\* The same of ProcessBlog: this the code keeps to.
C16_BlogCommitsAfterDelivery ==
    [][(pc = "blogLoop" /\ Len(sent') = Len(sent) + 1) =>
          LET result == sent'[Len(sent')].result IN
          /\ result = "True" => (history'.blog = current.blog /\ changed' = TRUE)
          /\ result = "False" => (history' = history /\ changed' = changed)]_vars

C17_NothingDelivered ==
    /\ pc = "ProcessMOTD"
    /\ outcome.blog = "delta"
    /\ Len(sent) = 2
    /\ sent[1].result = "False" /\ sent[2].result = "False"
    /\ history.blog = past.blog

(***************************************************************************)
(* C18.  Frame between sub-feeds: no step of ProcessBlog changes           *)
(* history.motd and no step of ProcessMOTD changes history.blog;           *)
(* ProcessBlog has returned (or was not called) when ProcessMOTD fetches,  *)
(* and every blog notification comes before every MOTD notification; a     *)
(* sub-feed that is not enabled is neither fetched nor notified for, and   *)
(* its history list is the loaded one up to the save, and the saved one    *)
(* after it.                                                               *)
(***************************************************************************)
C18_FrameBetweenSubFeeds ==
    [][/\ (pc \in {"ProcessBlog", "blogGET", "blogCheck", "blogLoop"}
             /\ pc' # "killed") => history'.motd = history.motd
       /\ (pc \in {"ProcessMOTD", "motdGET", "motdCheck", "motdLoop"}
             /\ pc' # "killed") => history'.blog = history.blog
       /\ pc' \in {"motdGET", "motdCheck", "motdLoop"} =>
             IF config.blogEnable = TRUE
             THEN outcome'.blog \in {"skipped", "baseline", "delta"}
             ELSE outcome'.blog = "none"
       /\ \A i, j \in 1..Len(sent') :
             (sent'[i].feed = "motd" /\ sent'[j].feed = "blog") => j < i
       /\ \A f \in {"blog", "motd"} :
             (IF f = "blog" THEN config.blogEnable ELSE config.motdEnable) # TRUE =>
                /\ pc' \notin (IF f = "blog" THEN {"blogGET", "blogCheck", "blogLoop"}
                                ELSE {"motdGET", "motdCheck", "motdLoop"})
                /\ \A i \in 1..Len(sent') : sent'[i].feed # f
                /\ pc' \in {"ProcessBlog", "blogGET", "blogCheck", "blogLoop",
                             "ProcessMOTD", "motdGET", "motdCheck", "motdLoop",
                             "Save", "done"} =>
                      history'[f] = IF f \in file'.keys THEN file'[f] ELSE <<>>]_vars

\* With the blog disabled, ProcessMOTD has delivered a notification and
\* returned, and the blog list is the one the file holds.
C18_Witness ==
    /\ pc = "Save"
    /\ config.blogEnable # TRUE
    /\ outcome.blog = "none" /\ outcome.motd = "delta"
    /\ Len(sent) > 0 /\ sent[1].feed = "motd" /\ sent[1].result = "True"
    /\ Len(history.blog) = 5 /\ history.blog = file.blog
    /\ history.motd # file.motd

(***************************************************************************)
(* C19.  Every history mutation is flagged and persisted: a step of a      *)
(* processor that changes the history in memory leaves the changed flag    *)
(* true; once true the flag stays true to the end of the run; no step      *)
(* taken with the flag false changes history.json; and when a run that is  *)
(* not a debug run completes, history.json read back (a missing key as the *)
(* empty list) is the history in memory.                                   *)
(***************************************************************************)
C19_MutationsFlaggedAndPersisted ==
    [][/\ (pc \in {"ProcessBlog", "blogGET", "blogCheck", "blogLoop",
                    "ProcessMOTD", "motdGET", "motdCheck", "motdLoop"}
             /\ pc' # "killed" /\ history' # history) => changed' = TRUE
       /\ (pc \notin {"LoadConfig", "done", "exit1", "crashed", "killed"}
             /\ pc' # "killed" /\ changed = TRUE) => changed' = TRUE
       /\ changed = FALSE => file' = file
       /\ (pc # "done" /\ pc' = "done" /\ config.debug # TRUE) =>
             /\ file'.state = "ok"
             /\ history' = [k \in {"blog", "motd"} |->
                              IF k \in file'.keys THEN file'[k] ELSE <<>>]
             /\ changed' = FALSE => file' = file]_vars

\* A run has completed after ProcessBlog delivered a notification and
\* ProcessMOTD rejected its response, and the file holds the new blog list.
C19_Witness ==
    /\ pc = "done"
    /\ config.debug # TRUE
    /\ outcome.blog = "delta" /\ outcome.motd = "skipped"
    /\ \E i \in 1..Len(sent) : sent[i].result = "True"
    /\ changed = TRUE
    /\ file.state = "ok" /\ file.blog = history.blog /\ file.motd = history.motd
    /\ file.blog # past.blog

\* A run has completed with the flag false after a notification failed, and
\* the file is the one it loaded.
C19_FlagStayedFalse ==
    /\ pc = "done"
    /\ config.debug # TRUE
    /\ changed = FALSE
    /\ Len(sent) > 0
    /\ writes = 0
    /\ history = Loaded(file)

====
